---- MODULE Spec2Model ----
(***************************************************************************)
(* State-machine model of nm-wifi (src/src/main.rs): the session struct    *)
(* App, the catalog reconciliation done by scan_wifi_networks, the backend *)
(* entry points connect_to_network / disconnect_from_network and the       *)
(* cooperative loop run_app.                                               *)
(***************************************************************************)
EXTENDS Integers, Sequences, FiniteSets, TLC

VARIABLES
    app,    \* the App struct owned by run_app, one field per struct field
    exit,   \* how run_app stands: "running", or how it returned
    last,   \* the latest iteration: phase it started in, event read, backend calls returned so far
    rescan_origin, \* while a rescan is under way: the ssid the cursor was on when it was requested
    in_flight, \* the backend futures created and not yet resolved
    typed,  \* the credential prompt not yet answered by the backend: the network it opened for, the text keyed in
    call,   \* the arguments of a backend entry point invoked on its own
    ret     \* what that invocation returned

vars == <<app, exit, last, rescan_origin, in_flight, typed, call, ret>>

(***************************************************************************)
(* Option<T> and Result<T, E>                                              *)
(***************************************************************************)
None == <<>>

Some(x) == <<x>>

IsSome(o) == Len(o) = 1

Unwrap(o) == o[1]

Ok(v) == [ok |-> TRUE, value |-> v]

Err(e) == [ok |-> FALSE, error |-> e]

(***************************************************************************)
(* Bounds of the model                                                     *)
(***************************************************************************)
\* longest list of access points the backend hands to one scan
MaxAps == 3

\* longest credential typed in the model (String is unbounded in the code)
MaxPwLen == 2

(***************************************************************************)
(* Access points as the backend reports them                               *)
(***************************************************************************)
AccessPoint(ssid, flags, wpa, rsn, strength, frequency) ==
    [ssid |-> ssid, flags |-> flags, wpa_flags |-> wpa, rsn_flags |-> rsn,
     strength |-> strength, frequency |-> frequency]

AccessPoints ==
    { AccessPoint("A", 0, 0, 0, 40, 2412),
      AccessPoint("A", 0, 0, 0, 70, 5180),
      AccessPoint("A", 1, 0, 0, 20, 5180),
      AccessPoint("B", 1, 0, 1, 90, 5200),
      AccessPoint("C", 0, 1, 0, 70, 2437),
      AccessPoint("",  0, 0, 0, 55, 2412) }

RECURSIVE SeqsUpTo(_, _)
SeqsUpTo(S, n) ==
    IF n = 0 THEN { <<>> }
    ELSE LET shorter == SeqsUpTo(S, n - 1)
         IN  shorter \cup { Append(s, x) : s \in {t \in shorter : Len(t) = n - 1}, x \in S }

\* what get_connected_ssid can answer: nothing, a scanned ssid, or one out of range
ConnectedSsids == { None, Some("A"), Some("B"), Some("Z") }

\* the `?` exits of scan_wifi_networks
ScanFaults ==
    { "Failed to connect to D-Bus", "Failed to get devices",
      "Failed to request scan", "Failed to get access points" }

(***************************************************************************)
(* scan_wifi_networks                                                      *)
(***************************************************************************)
Secured(ap) == ap.rsn_flags # 0 \/ ap.wpa_flags # 0 \/ (ap.flags % 2) # 0

\* every observation tagged connected as soon as some ssid is associated
ToNetworkAnyAssociated(ap, connected_ssid) ==
    [ssid |-> ap.ssid, signal_strength |-> ap.strength, secured |-> Secured(ap),
     frequency |-> ap.frequency, connected |-> IsSome(connected_ssid)]

ToNetwork(ap, connected_ssid) ==
    [ssid |-> ap.ssid, signal_strength |-> ap.strength, secured |-> Secured(ap),
     frequency |-> ap.frequency, connected |-> (connected_ssid = Some(ap.ssid))]

\* the loop over access_points without its `!ssid.is_empty()` test
CollectNetworksKeepingHidden(access_points, connected_ssid) ==
    [i \in 1..Len(access_points) |-> ToNetwork(access_points[i], connected_ssid)]

\* the loop over access_points: hidden (empty-ssid) access points are skipped
CollectNetworks(access_points, connected_ssid) ==
    LET kept == SelectSeq(access_points, LAMBDA ap : ap.ssid # "")
    IN  [i \in 1..Len(kept) |-> ToNetwork(kept[i], connected_ssid)]

EmptyMap == [k \in {} |-> k]

\* the comparison reversed: the lower-frequency duplicate would survive
KeepsNewIfLower(network, existing) == network.frequency < existing.frequency

\* `network.frequency > existing.frequency` in the deduplication loop
KeepsNew(network, existing) == network.frequency > existing.frequency

\* the HashMap<String, WifiNetwork> built by the deduplication loop
RECURSIVE Deduplicate(_, _)
Deduplicate(nets, unique_networks) ==
    IF nets = <<>> THEN unique_networks
    ELSE LET network == Head(nets)
             next_map ==
                 IF network.ssid \in DOMAIN unique_networks
                 THEN IF KeepsNew(network, unique_networks[network.ssid])
                      THEN [unique_networks EXCEPT ![network.ssid] = network]
                      ELSE unique_networks
                 ELSE unique_networks @@ (network.ssid :> network)
         IN  Deduplicate(Tail(nets), next_map)

\* the iteration orders HashMap::into_values may produce: any order of the
\* ssids observed, of which the map's keys are visited
Orders(keys) ==
    { o \in [1..Cardinality(keys) -> keys] :
        \A i, j \in 1..Cardinality(keys) : o[i] = o[j] => i = j }

\* the values of the map, its keys taken in the order given
IntoValues(unique_networks, order) ==
    LET keys == SelectSeq(order, LAMBDA k : k \in DOMAIN unique_networks)
    IN  [i \in 1..Len(keys) |-> unique_networks[keys[i]]]

\* the closure without its (connected, connected) match: signal strength alone
CompareSignalOnly(a, b) ==
    IF b.signal_strength < a.signal_strength THEN -1
    ELSE IF b.signal_strength > a.signal_strength THEN 1
    ELSE 0

\* the closure given to sort_by: -1 Less, 0 Equal, 1 Greater
Compare(a, b) ==
    IF a.connected /\ ~b.connected THEN -1
    ELSE IF ~a.connected /\ b.connected THEN 1
    ELSE IF b.signal_strength < a.signal_strength THEN -1
    ELSE IF b.signal_strength > a.signal_strength THEN 1
    ELSE 0

\* x goes before the first element it is strictly Less than (sort_by is stable)
RECURSIVE InsertSorted(_, _)
InsertSorted(sorted, x) ==
    IF sorted = <<>> THEN <<x>>
    ELSE IF Compare(x, Head(sorted)) < 0 THEN <<x>> \o sorted
    ELSE <<Head(sorted)>> \o InsertSorted(Tail(sorted), x)

RECURSIVE SortBy(_, _)
SortBy(items, sorted) ==
    IF items = <<>> THEN sorted
    ELSE SortBy(Tail(items), InsertSorted(sorted, Head(items)))

\* env: what the backend answers during one call of scan_wifi_networks
scan_wifi_networks(env) ==
    IF env.fault # "none" THEN Err(env.fault)
    ELSE IF ~env.wifi_device THEN Ok(<<>>)
    ELSE LET nets   == CollectNetworks(env.access_points, env.connected_ssid)
             unique == Deduplicate(nets, EmptyMap)
         IN  Ok(SortBy(IntoValues(unique, env.hash_order), <<>>))

SsidsOf(access_points) ==
    { access_points[i].ssid : i \in 1..Len(access_points) }

ScanEnvsFor(aps) ==
    { [fault |-> "none", wifi_device |-> TRUE, access_points |-> aps,
       connected_ssid |-> c, hash_order |-> o] :
         c \in ConnectedSsids, o \in Orders(SsidsOf(aps)) }

ScanEnvs ==
    UNION { ScanEnvsFor(aps) : aps \in SeqsUpTo(AccessPoints, MaxAps) }
    \cup { [fault |-> f, wifi_device |-> TRUE, access_points |-> <<>>,
            connected_ssid |-> None, hash_order |-> <<>>] : f \in ScanFaults }
    \cup { [fault |-> "none", wifi_device |-> FALSE, access_points |-> <<>>,
            connected_ssid |-> None, hash_order |-> <<>>] }

(***************************************************************************)
(* App::new                                                                *)
(***************************************************************************)
AppNew ==
    [networks                |-> <<>>,
     selected_index          |-> 0,
     list_state              |-> Some(0),
     state                   |-> "Scanning",
     password_input          |-> <<>>,
     selected_network        |-> None,
     status_message          |-> <<"Scanning for networks...">>,
     should_quit             |-> FALSE,
     connection_success      |-> FALSE,
     connection_error        |-> None,
     is_disconnect_operation |-> FALSE,
     adapter_info            |-> None,
     network_count           |-> 0,
     last_scan_time          |-> None,
     connection_start_time   |-> None,
     password_visible        |-> FALSE]

(***************************************************************************)
(* impl App                                                                *)
(***************************************************************************)
\* Vec::get with a 0-based index
Get(vec, index) == IF index < Len(vec) THEN Some(vec[index + 1]) ELSE None

\* Vec::iter().position(|n| n.ssid == ssid), 0-based
Position(vec, ssid) ==
    IF \E i \in 1..Len(vec) : vec[i].ssid = ssid
    THEN Some((CHOOSE i \in 1..Len(vec) :
                  /\ vec[i].ssid = ssid
                  /\ \A j \in 1..(i - 1) : vec[j].ssid # ssid) - 1)
    ELSE None

Now == "now"

\* next stopping at the last index instead of wrapping
next_clamping(a) ==
    IF a.networks # <<>>
    THEN LET i == IF IsSome(a.list_state)
                  THEN IF Unwrap(a.list_state) >= Len(a.networks) - 1
                       THEN Len(a.networks) - 1
                       ELSE Unwrap(a.list_state) + 1
                  ELSE 0
         IN  [a EXCEPT !.list_state = Some(i), !.selected_index = i]
    ELSE a

next(a) ==
    IF a.networks # <<>>
    THEN LET i == IF IsSome(a.list_state)
                  THEN IF Unwrap(a.list_state) >= Len(a.networks) - 1
                       THEN 0
                       ELSE Unwrap(a.list_state) + 1
                  ELSE 0
         IN  [a EXCEPT !.list_state = Some(i), !.selected_index = i]
    ELSE a

\* previous stopping at index 0 instead of wrapping
previous_clamping(a) ==
    IF a.networks # <<>>
    THEN LET i == IF IsSome(a.list_state)
                  THEN IF Unwrap(a.list_state) = 0
                       THEN 0
                       ELSE Unwrap(a.list_state) - 1
                  ELSE 0
         IN  [a EXCEPT !.list_state = Some(i), !.selected_index = i]
    ELSE a

previous(a) ==
    IF a.networks # <<>>
    THEN LET i == IF IsSome(a.list_state)
                  THEN IF Unwrap(a.list_state) = 0
                       THEN Len(a.networks) - 1
                       ELSE Unwrap(a.list_state) - 1
                  ELSE 0
         IN  [a EXCEPT !.list_state = Some(i), !.selected_index = i]
    ELSE a

\* select_network without its closing `self.selected_network = network`
select_network_not_recording(a) ==
    LET network == Get(a.networks, a.selected_index)
        a1 == IF IsSome(network) /\ Unwrap(network).connected
              THEN [a EXCEPT !.state = "Disconnecting",
                             !.status_message = <<"Disconnecting from", Unwrap(network).ssid>>]
              ELSE IF IsSome(network) /\ Unwrap(network).secured
              THEN [a EXCEPT !.state = "PasswordInput",
                             !.password_input = <<>>]
              ELSE IF IsSome(network)
              THEN [a EXCEPT !.state = "Connecting",
                             !.connection_start_time = Some(Now),
                             !.status_message = <<"Connecting to", Unwrap(network).ssid>>]
              ELSE a
    IN  [a1 EXCEPT !.is_disconnect_operation = (a1.state = "Disconnecting")]

\* select_network testing `secured` before `connected`
select_network_secured_first(a) ==
    LET network == Get(a.networks, a.selected_index)
        a1 == IF IsSome(network) /\ Unwrap(network).secured
              THEN [a EXCEPT !.state = "PasswordInput",
                             !.password_input = <<>>]
              ELSE IF IsSome(network) /\ Unwrap(network).connected
              THEN [a EXCEPT !.state = "Disconnecting",
                             !.status_message = <<"Disconnecting from", Unwrap(network).ssid>>]
              ELSE IF IsSome(network)
              THEN [a EXCEPT !.state = "Connecting",
                             !.connection_start_time = Some(Now),
                             !.status_message = <<"Connecting to", Unwrap(network).ssid>>]
              ELSE a
        a2 == [a1 EXCEPT !.is_disconnect_operation = (a1.state = "Disconnecting")]
    IN  IF IsSome(network) THEN [a2 EXCEPT !.selected_network = network] ELSE a2

\* select_network computing is_disconnect_operation before the match
select_network_flag_first(a) ==
    LET network == Get(a.networks, a.selected_index)
        a1 == IF IsSome(network) /\ Unwrap(network).connected
              THEN [a EXCEPT !.state = "Disconnecting",
                             !.status_message = <<"Disconnecting from", Unwrap(network).ssid>>]
              ELSE IF IsSome(network) /\ Unwrap(network).secured
              THEN [a EXCEPT !.state = "PasswordInput",
                             !.password_input = <<>>]
              ELSE IF IsSome(network)
              THEN [a EXCEPT !.state = "Connecting",
                             !.connection_start_time = Some(Now),
                             !.status_message = <<"Connecting to", Unwrap(network).ssid>>]
              ELSE a
        a2 == [a1 EXCEPT !.is_disconnect_operation = (a.state = "Disconnecting")]
    IN  IF IsSome(network) THEN [a2 EXCEPT !.selected_network = network] ELSE a2

select_network(a) ==
    LET network == Get(a.networks, a.selected_index)
        a1 == IF IsSome(network) /\ Unwrap(network).connected
              THEN [a EXCEPT !.state = "Disconnecting",
                             !.status_message = <<"Disconnecting from", Unwrap(network).ssid>>]
              ELSE IF IsSome(network) /\ Unwrap(network).secured
              THEN [a EXCEPT !.state = "PasswordInput",
                             !.password_input = <<>>]
              ELSE IF IsSome(network)
              THEN [a EXCEPT !.state = "Connecting",
                             !.connection_start_time = Some(Now),
                             !.status_message = <<"Connecting to", Unwrap(network).ssid>>]
              ELSE a
        a2 == [a1 EXCEPT !.is_disconnect_operation = (a1.state = "Disconnecting")]
    IN  IF IsSome(network) THEN [a2 EXCEPT !.selected_network = network] ELSE a2

\* the character put in front of the buffer instead of pushed at its end
add_char_to_password_in_front(a, c) ==
    [a EXCEPT !.password_input = <<c>> \o a.password_input]

add_char_to_password(a, c) ==
    [a EXCEPT !.password_input = Append(a.password_input, c)]

\* String::pop: nothing happens on the empty string
remove_char_from_password(a) ==
    [a EXCEPT !.password_input =
        IF a.password_input = <<>> THEN <<>>
        ELSE SubSeq(a.password_input, 1, Len(a.password_input) - 1)]

confirm_password(a) ==
    LET a1 == [a EXCEPT !.state = "Connecting",
                        !.connection_start_time = Some(Now)]
    IN  IF IsSome(a.selected_network)
        THEN [a1 EXCEPT !.status_message =
                 <<"Connecting to", Unwrap(a.selected_network).ssid>>]
        ELSE a1

quit(a) == [a EXCEPT !.should_quit = TRUE]

\* back_to_network_list also dropping the remembered network
back_to_network_list_forgetting(a) ==
    [a EXCEPT !.state = "NetworkList",
              !.connection_success = FALSE,
              !.connection_error = None,
              !.password_input = <<>>,
              !.password_visible = FALSE,
              !.is_disconnect_operation = FALSE,
              !.connection_start_time = None,
              !.selected_network = None]

back_to_network_list(a) ==
    [a EXCEPT !.state = "NetworkList",
              !.connection_success = FALSE,
              !.connection_error = None,
              !.password_input = <<>>,
              !.password_visible = FALSE,
              !.is_disconnect_operation = FALSE,
              !.connection_start_time = None]

\* update_selection_after_rescan without its final `selected_network = None`
update_selection_keeping_network(a) ==
    IF IsSome(a.selected_network)
    THEN LET new_index == Position(a.networks, Unwrap(a.selected_network).ssid)
         IN  IF IsSome(new_index)
             THEN [a EXCEPT !.selected_index = Unwrap(new_index),
                            !.list_state = new_index]
             ELSE [a EXCEPT !.selected_index = 0,
                            !.list_state = Some(0)]
    ELSE a

update_selection_after_rescan(a) ==
    LET a1 == IF IsSome(a.selected_network)
              THEN LET new_index == Position(a.networks, Unwrap(a.selected_network).ssid)
                   IN  IF IsSome(new_index)
                       THEN [a EXCEPT !.selected_index = Unwrap(new_index),
                                      !.list_state = new_index]
                       ELSE [a EXCEPT !.selected_index = 0,
                                      !.list_state = Some(0)]
              ELSE a
    IN  [a1 EXCEPT !.selected_network = None]

(***************************************************************************)
(* connect_to_network, disconnect_from_network                             *)
(*                                                                         *)
(* env[k] is how the k-th nmcli command the function runs ends: "ok",      *)
(* "fail" (non-zero exit), "exists" (non-zero exit with "already exists"   *)
(* on stderr) or "exec" (the process cannot be spawned).  The value        *)
(* returned carries the commands run, in order, beside the Result.         *)
(***************************************************************************)
Returned(result, cmds) == [result |-> result, cmds |-> cmds]

CmdOutcomes == { "ok", "fail", "exists", "exec" }

BackendEnvs == [1..3 -> CmdOutcomes]

\* the guard left out: every call goes on to nmcli
RejectsNever(network, password) == FALSE

\* `network.secured && password.is_none()`
MissingPassword(network, password) == network.secured /\ ~IsSome(password)

connect_to_network(network, password, env) ==
    IF MissingPassword(network, password)
    THEN Returned(Err("Password required for secured network"), <<>>)
    ELSE IF network.secured
    THEN LET add == <<"nmcli connection add">>
             modify == add \o <<"nmcli connection modify">>
             exists == env[1] = "exists"
             up == (IF exists THEN modify ELSE add) \o <<"nmcli connection up">>
             activate == IF exists THEN env[3] ELSE env[2]
         IN  IF env[1] = "exec"
             THEN Returned(Err("Failed to execute nmcli add"), add)
             ELSE IF env[1] = "fail"
             THEN Returned(Err("nmcli add failed"), add)
             ELSE IF exists /\ env[2] = "exec"
             THEN Returned(Err("Failed to execute nmcli modify"), modify)
             ELSE IF exists /\ env[2] # "ok"
             THEN Returned(Err("nmcli modify failed"), modify)
             ELSE IF activate = "exec"
             THEN Returned(Err("Failed to execute nmcli up"), up)
             ELSE IF activate = "ok"
             THEN Returned(Ok("unit"), up)
             ELSE Returned(Err("nmcli activation failed"), up)
    ELSE LET connect == <<"nmcli device wifi connect">>
         IN  IF env[1] = "exec"
             THEN Returned(Err("Failed to execute nmcli"), connect)
             ELSE IF env[1] = "ok"
             THEN Returned(Ok("unit"), connect)
             ELSE Returned(Err("nmcli failed"), connect)

disconnect_from_network(network, env) ==
    LET down == <<"nmcli connection down">>
    IN  IF env[1] = "exec"
        THEN Returned(Err("Failed to execute nmcli"), down)
        ELSE IF env[1] = "ok"
        THEN Returned(Ok("unit"), down)
        ELSE Returned(Err("nmcli disconnect failed"), down)

(***************************************************************************)
(* run_app: what one iteration does to the App, by phase                   *)
(***************************************************************************)
\* What an iteration's poll can deliver: a timeout ("none"), an event that
\* is no key press ("other"), or a key press, named by its KeyCode
\* (a one-letter name is KeyCode::Char of that letter).  Per phase the
\* inputs drawn are one key for each pattern of the phase's match, with
\* both bindings where a pattern has two, and F1 for the `_` arm.
TypedChars == { "p", "q" }

IsChar(key) == key \in { "q", "j", "k", "c", "d", "r", "h", "i" } \cup TypedChars

EventsIn(phase) ==
    IF phase = "Scanning"
    THEN { "other", "Esc", "j", "Down", "k", "Up", "Enter", "c", "F1" }
    ELSE IF phase \in { "Connecting", "Disconnecting" }
    THEN { "none", "other", "Esc", "Enter" }
    ELSE IF phase = "NetworkList"
    THEN { "none", "other", "q", "Esc", "j", "Down", "k", "Up", "Enter", "c",
           "d", "r", "h", "i", "F1" }
    ELSE IF phase = "Help"
    THEN { "none", "other", "Esc", "h", "q", "F1" }
    ELSE IF phase = "NetworkDetails"
    THEN { "none", "other", "Esc", "i", "q", "F1" }
    ELSE IF phase = "PasswordInput"
    THEN { "none", "other", "Esc", "Enter", "Backspace", "Tab", "F1" } \cup TypedChars
    ELSE { "none", "other", "q", "Esc", "Enter", "F1" }

IsKey(ev) == ev \notin { "none", "other" }

\* the descriptors get_wifi_adapter_info can answer
AdapterInfos == { None, Some("wlan0") }

\* the Scanning match without its Esc arm
ScanningKeyNoQuit(a, key) ==
    IF key \in { "j", "Down" }
    THEN IF a.networks # <<>> THEN next(a) ELSE a
    ELSE IF key \in { "k", "Up" }
    THEN IF a.networks # <<>> THEN previous(a) ELSE a
    ELSE IF key \in { "Enter", "c" }
    THEN IF a.networks # <<>> THEN select_network(a) ELSE a
    ELSE a

\* key press read while Scanning (the match at the top of the loop)
ScanningKey(a, key) ==
    IF key = "Esc" THEN quit(a)
    ELSE IF key \in { "j", "Down" }
    THEN IF a.networks # <<>> THEN next(a) ELSE a
    ELSE IF key \in { "k", "Up" }
    THEN IF a.networks # <<>> THEN previous(a) ELSE a
    ELSE IF key \in { "Enter", "c" }
    THEN IF a.networks # <<>> THEN select_network(a) ELSE a
    ELSE a

\* the assignments that follow `scan_wifi_networks().await?`
StoreScan(a, nets) ==
    [a EXCEPT !.networks = nets,
              !.network_count = Len(nets),
              !.last_scan_time = Some(Now)]

\* the scan cycle leaving Scanning whatever the scan found
FinishScanAlwaysListing(a, previous_count) ==
    LET a3 == IF previous_count = 0 /\ a.networks # <<>>
              THEN IF IsSome(a.selected_network)
                   THEN update_selection_after_rescan(a)
                   ELSE [a EXCEPT !.list_state = Some(0)]
              ELSE a
    IN  [a3 EXCEPT !.status_message =
                       <<"Found network(s). Ready to connect!", ToString(Len(a3.networks))>>,
                   !.state = "NetworkList"]

\* the selection update made without `&& !app.networks.is_empty()`
FinishScanOnEmptyToo(a, previous_count) ==
    LET a3 == IF previous_count = 0
              THEN IF IsSome(a.selected_network)
                   THEN update_selection_after_rescan(a)
                   ELSE [a EXCEPT !.list_state = Some(0)]
              ELSE a
    IN  IF a3.networks # <<>>
        THEN [a3 EXCEPT !.status_message =
                            <<"Found network(s). Ready to connect!", ToString(Len(a3.networks))>>,
                        !.state = "NetworkList"]
        ELSE [a3 EXCEPT !.status_message = <<"Scanning for WiFi networks...">>]

\* the scan cycle ending without `app.state = AppState::NetworkList`
FinishScanStayingScanning(a, previous_count) ==
    LET a3 == IF previous_count = 0 /\ a.networks # <<>>
              THEN IF IsSome(a.selected_network)
                   THEN update_selection_after_rescan(a)
                   ELSE [a EXCEPT !.list_state = Some(0)]
              ELSE a
    IN  IF a3.networks # <<>>
        THEN [a3 EXCEPT !.status_message =
                            <<"Found network(s). Ready to connect!", ToString(Len(a3.networks))>>]
        ELSE [a3 EXCEPT !.status_message = <<"Scanning for WiFi networks...">>]

\* the rest of the scan cycle, from the selection update on
FinishScan(a, previous_count) ==
    LET a3 == IF previous_count = 0 /\ a.networks # <<>>
              THEN IF IsSome(a.selected_network)
                   THEN update_selection_after_rescan(a)
                   ELSE [a EXCEPT !.list_state = Some(0)]
              ELSE a
    IN  IF a3.networks # <<>>
        THEN [a3 EXCEPT !.status_message =
                            <<"Found network(s). Ready to connect!", ToString(Len(a3.networks))>>,
                        !.state = "NetworkList"]
        ELSE [a3 EXCEPT !.status_message = <<"Scanning for WiFi networks...">>]

\* the scan cycle after scan_wifi_networks returned Ok(nets); info is what
\* get_wifi_adapter_info answers if it is asked
MergeScan(a, nets, info) ==
    LET previous_count == Len(a.networks)
        a1 == StoreScan(a, nets)
        a2 == IF a1.adapter_info = None
              THEN [a1 EXCEPT !.adapter_info = info]
              ELSE a1
    IN  FinishScan(a2, previous_count)

\* the Err arm not storing the error text
MergeConnectDroppingError(a, result) ==
    LET a1 == IF result.ok
              THEN [a EXCEPT !.connection_success = TRUE,
                             !.connection_error = None,
                             !.status_message = <<"Connected successfully!">>]
              ELSE [a EXCEPT !.connection_success = FALSE,
                             !.status_message = <<"Connection failed">>]
    IN  [a1 EXCEPT !.state = "ConnectionResult"]

\* the match on the result of connect_to_network
MergeConnect(a, result) ==
    LET a1 == IF result.ok
              THEN [a EXCEPT !.connection_success = TRUE,
                             !.connection_error = None,
                             !.status_message = <<"Connected successfully!">>]
              ELSE [a EXCEPT !.connection_success = FALSE,
                             !.connection_error = Some(result.error),
                             !.status_message = <<"Connection failed">>]
    IN  [a1 EXCEPT !.state = "ConnectionResult"]

\* the phase set before the match on the result has stored anything
MergeDisconnectPhaseOnly(a, result) ==
    [a EXCEPT !.state = "ConnectionResult"]

\* the match on the result of disconnect_from_network
MergeDisconnect(a, result) ==
    LET a1 == IF result.ok
              THEN [a EXCEPT !.connection_success = TRUE,
                             !.connection_error = None,
                             !.status_message = <<"Disconnected successfully!">>]
              ELSE [a EXCEPT !.connection_success = FALSE,
                             !.connection_error = Some(result.error),
                             !.status_message = <<"Disconnection failed">>]
    IN  [a1 EXCEPT !.state = "ConnectionResult"]

\* the disconnect key without its `.filter(|n| n.connected)`
DisconnectKeyAnyNetwork(a) ==
    LET network == Get(a.networks, a.selected_index)
    IN  IF IsSome(network)
        THEN [a EXCEPT !.is_disconnect_operation = TRUE,
                       !.state = "Disconnecting",
                       !.connection_start_time = Some(Now),
                       !.status_message = <<"Disconnecting from", Unwrap(network).ssid>>,
                       !.selected_network = network]
        ELSE a

\* KeyCode::Char('d') in NetworkList
DisconnectKey(a) ==
    LET network == Get(a.networks, a.selected_index)
    IN  IF IsSome(network) /\ Unwrap(network).connected
        THEN [a EXCEPT !.is_disconnect_operation = TRUE,
                       !.state = "Disconnecting",
                       !.connection_start_time = Some(Now),
                       !.status_message = <<"Disconnecting from", Unwrap(network).ssid>>,
                       !.selected_network = network]
        ELSE a

\* the rescan key without its `app.networks.clear()`
RescanKeyKeepingCatalog(a) ==
    [a EXCEPT !.state = "Scanning",
              !.status_message = <<"Scanning for networks...">>]

\* KeyCode::Char('r') in NetworkList
RescanKey(a) ==
    [a EXCEPT !.state = "Scanning",
              !.status_message = <<"Scanning for networks...">>,
              !.networks = <<>>]

\* the NetworkList match with the details key not testing the catalog
NetworkListKeyDetailsAlways(a, key) ==
    IF key \in { "q", "Esc" } THEN quit(a)
    ELSE IF key \in { "j", "Down" } THEN next(a)
    ELSE IF key \in { "k", "Up" } THEN previous(a)
    ELSE IF key \in { "Enter", "c" } THEN select_network(a)
    ELSE IF key = "d" THEN DisconnectKey(a)
    ELSE IF key = "r" THEN RescanKey(a)
    ELSE IF key = "h" THEN [a EXCEPT !.state = "Help"]
    ELSE IF key = "i" THEN [a EXCEPT !.state = "NetworkDetails"]
    ELSE a

NetworkListKey(a, key) ==
    IF key \in { "q", "Esc" } THEN quit(a)
    ELSE IF key \in { "j", "Down" } THEN next(a)
    ELSE IF key \in { "k", "Up" } THEN previous(a)
    ELSE IF key \in { "Enter", "c" } THEN select_network(a)
    ELSE IF key = "d" THEN DisconnectKey(a)
    ELSE IF key = "r" THEN RescanKey(a)
    ELSE IF key = "h" THEN [a EXCEPT !.state = "Help"]
    ELSE IF key = "i"
    THEN IF a.networks # <<>> THEN [a EXCEPT !.state = "NetworkDetails"] ELSE a
    ELSE a

\* closing the help overlay into Scanning
HelpKeyToScanning(a, key) ==
    IF key \in { "Esc", "h", "q" } THEN [a EXCEPT !.state = "Scanning"] ELSE a

HelpKey(a, key) ==
    IF key \in { "Esc", "h", "q" } THEN [a EXCEPT !.state = "NetworkList"] ELSE a

NetworkDetailsKey(a, key) ==
    IF key \in { "Esc", "i", "q" } THEN [a EXCEPT !.state = "NetworkList"] ELSE a

\* Backspace on an empty buffer also leaving the prompt
PasswordInputKeyBackspaceLeaves(a, key) ==
    IF key = "Esc" \/ (key = "Backspace" /\ a.password_input = <<>>)
    THEN [a EXCEPT !.state = "NetworkList",
                   !.password_input = <<>>,
                   !.password_visible = FALSE]
    ELSE IF key = "Enter" THEN confirm_password(a)
    ELSE IF key = "Backspace" THEN remove_char_from_password(a)
    ELSE IF key = "Tab" THEN [a EXCEPT !.password_visible = ~a.password_visible]
    ELSE IF IsChar(key) THEN add_char_to_password(a, key)
    ELSE a

\* Esc leaving the prompt with what was typed still in the buffer
PasswordInputKeyKeepingBuffer(a, key) ==
    IF key = "Esc"
    THEN [a EXCEPT !.state = "NetworkList"]
    ELSE IF key = "Enter" THEN confirm_password(a)
    ELSE IF key = "Backspace" THEN remove_char_from_password(a)
    ELSE IF key = "Tab" THEN [a EXCEPT !.password_visible = ~a.password_visible]
    ELSE IF IsChar(key) THEN add_char_to_password(a, key)
    ELSE a

PasswordInputKey(a, key) ==
    IF key = "Esc"
    THEN [a EXCEPT !.state = "NetworkList",
                   !.password_input = <<>>,
                   !.password_visible = FALSE]
    ELSE IF key = "Enter" THEN confirm_password(a)
    ELSE IF key = "Backspace" THEN remove_char_from_password(a)
    ELSE IF key = "Tab" THEN [a EXCEPT !.password_visible = ~a.password_visible]
    ELSE IF IsChar(key) THEN add_char_to_password(a, key)
    ELSE a

\* KeyCode::Enter in ConnectionResult
AcknowledgeKey(a) ==
    [back_to_network_list(a) EXCEPT !.state = "Scanning",
                                    !.status_message = <<"Scanning for networks...">>,
                                    !.networks = <<>>]

ConnectionResultKey(a, key) ==
    IF key \in { "q", "Esc" } THEN quit(a)
    ELSE IF key = "Enter" THEN AcknowledgeKey(a)
    ELSE a

\* the final match on app.state, for a key press
HandleKey(a, key) ==
    IF a.state = "NetworkList" THEN NetworkListKey(a, key)
    ELSE IF a.state = "Help" THEN HelpKey(a, key)
    ELSE IF a.state = "NetworkDetails" THEN NetworkDetailsKey(a, key)
    ELSE IF a.state = "PasswordInput" THEN PasswordInputKey(a, key)
    ELSE IF a.state = "ConnectionResult" THEN ConnectionResultKey(a, key)
    ELSE a

(***************************************************************************)
(* run_app: the loop                                                       *)
(*                                                                         *)
(* An iteration that awaits a backend call takes one step up to the call   *)
(* and one step from each `.await` resolving to the next await or to the   *)
(* iteration's `continue`; every other iteration is one step.              *)
(***************************************************************************)
Tick(from, event, calls) == [from |-> from, event |-> event, calls |-> calls]

NoTick == Tick("start", "none", <<>>)

NoCall == [fn |-> "none"]

\* one backend entry point called during an iteration
BackendCall(fn, network, password, cmds, result) ==
    [fn |-> fn, network |-> network, password |-> password, cmds |-> cmds,
     result |-> result]

ScanCall(result) == BackendCall("scan_wifi_networks", None, None, <<>>, result)

AdapterCall(info) == BackendCall("get_wifi_adapter_info", None, None, <<>>, Ok(info))

\* the ssid both cursor indices point at, if they agree on a network
OnCursor(a) ==
    LET network == Get(a.networks, a.selected_index)
    IN  IF a.list_state = Some(a.selected_index) /\ IsSome(network)
        THEN Some(Unwrap(network).ssid)
        ELSE None

Running == [how |-> "running", error |-> ""]

Exited(how, error) == [how |-> how, error |-> error]

\* every value scan_wifi_networks can return on the modelled backend answers
ScanOutcomes == { scan_wifi_networks(env) : env \in ScanEnvs }

\* a backend future the loop is suspended on: the entry point, its
\* arguments, and the locals of the iteration that outlive the await
Awaiting(fn, args, locals) == [fn |-> fn, args |-> args, locals |-> locals]

\* an iteration starting without waiting for what was awaited
LoopTopAlways == TRUE

\* control is at the head of `loop`: every `.await` of the previous
\* iteration has resolved
LoopTop == in_flight = {}

\* `terminal.draw(|f| ui(f, &app))`, the first statement of an iteration:
\* the states it renders are those with control at the head of the loop
Drawn == LoopTop /\ exit = Running

Init ==
    /\ app = AppNew
    /\ exit = Running
    /\ last = NoTick
    /\ rescan_origin = None
    /\ in_flight = {}
    /\ typed = None
    /\ call = NoCall
    /\ ret = None

\* `if app.should_quit { break; }` after the draw
Break ==
    /\ exit = Running
    /\ LoopTop
    /\ app.should_quit
    /\ exit' = Exited("ok", "")
    /\ UNCHANGED <<app, last, rescan_origin, in_flight, typed, call, ret>>

\* the event branch without its closing `continue`: the scan follows
ScanningEventFallingThrough ==
    /\ exit = Running
    /\ LoopTop
    /\ ~app.should_quit
    /\ app.state = "Scanning"
    /\ \E ev \in EventsIn("Scanning") :
          /\ app' = IF IsKey(ev) THEN ScanningKey(app, ev) ELSE app
          /\ last' = Tick("Scanning", ev, <<>>)
    /\ in_flight' = in_flight \cup { Awaiting("scan_wifi_networks", <<>>, <<>>) }
    /\ UNCHANGED <<exit, rescan_origin, typed, call, ret>>

\* Scanning, the poll delivered an event: it is handled and no scan is made
ScanningEvent ==
    /\ exit = Running
    /\ LoopTop
    /\ ~app.should_quit
    /\ app.state = "Scanning"
    /\ \E ev \in EventsIn("Scanning") :
          /\ app' = IF IsKey(ev) THEN ScanningKey(app, ev) ELSE app
          /\ last' = Tick("Scanning", ev, <<>>)
    /\ UNCHANGED <<exit, rescan_origin, in_flight, typed, call, ret>>

\* Scanning, the poll timed out: scan_wifi_networks is called and awaited
ScanCycle ==
    /\ exit = Running
    /\ LoopTop
    /\ ~app.should_quit
    /\ app.state = "Scanning"
    /\ last' = Tick("Scanning", "none", <<>>)
    /\ in_flight' = in_flight \cup { Awaiting("scan_wifi_networks", <<>>, <<>>) }
    /\ UNCHANGED <<app, exit, rescan_origin, typed, call, ret>>

\* scan_wifi_networks resolves: `?` returns its error from run_app; otherwise
\* the catalog is stored and the cycle goes on, through
\* get_wifi_adapter_info if no adapter is known yet
ScanReturn ==
    /\ exit = Running
    /\ \E c \in in_flight, res \in ScanOutcomes :
          /\ c.fn = "scan_wifi_networks"
          /\ last' = [last EXCEPT !.calls = Append(last.calls, ScanCall(res))]
          /\ IF ~res.ok
             THEN /\ app' = app
                  /\ in_flight' = in_flight \ { c }
                  /\ rescan_origin' = rescan_origin
                  /\ exit' = Exited("err", res.error)
             ELSE IF app.adapter_info = None
             THEN /\ app' = StoreScan(app, res.value)
                  /\ in_flight' = (in_flight \ { c })
                        \cup { Awaiting("get_wifi_adapter_info", <<>>, <<Len(app.networks)>>) }
                  /\ rescan_origin' = rescan_origin
                  /\ exit' = exit
             ELSE /\ app' = MergeScan(app, res.value, app.adapter_info)
                  /\ in_flight' = in_flight \ { c }
                  /\ rescan_origin' = IF res.value # <<>> THEN None ELSE rescan_origin
                  /\ exit' = exit
    /\ UNCHANGED <<typed, call, ret>>

\* get_wifi_adapter_info resolves and the scan cycle runs to its `continue`
AdapterReturn ==
    /\ exit = Running
    /\ \E c \in in_flight, info \in AdapterInfos :
          /\ c.fn = "get_wifi_adapter_info"
          /\ app' = FinishScan([app EXCEPT !.adapter_info = info], c.locals[1])
          /\ last' = [last EXCEPT !.calls = Append(last.calls, AdapterCall(info))]
          /\ in_flight' = in_flight \ { c }
    /\ rescan_origin' = IF app.networks # <<>> THEN None ELSE rescan_origin
    /\ UNCHANGED <<exit, typed, call, ret>>

\* Connecting with any key press at the poll taken as the cancel request
ConnectingTickAnyKeyCancels ==
    /\ exit = Running
    /\ LoopTop
    /\ ~app.should_quit
    /\ app.state = "Connecting"
    /\ \E ev \in EventsIn("Connecting") :
          /\ last' = Tick("Connecting", ev, <<>>)
          /\ IF IsKey(ev)
             THEN /\ app' = quit(app)
                  /\ in_flight' = in_flight
                  /\ exit' = exit
             ELSE IF ~IsSome(app.selected_network)
             THEN /\ app' = app
                  /\ in_flight' = in_flight
                  /\ exit' = Exited("panic", "unwrap on None")
             ELSE LET password == IF Unwrap(app.selected_network).secured
                                  THEN Some(app.password_input) ELSE None
                  IN  /\ app' = app
                      /\ in_flight' = in_flight \cup
                            { Awaiting("connect_to_network",
                                       <<app.selected_network, password>>, <<>>) }
                      /\ exit' = exit
    /\ UNCHANGED <<rescan_origin, typed, call, ret>>

\* Connecting with the Esc branch missing its `continue`: the call follows
ConnectingTickQuitFallingThrough ==
    /\ exit = Running
    /\ LoopTop
    /\ ~app.should_quit
    /\ app.state = "Connecting"
    /\ \E ev \in EventsIn("Connecting") :
          /\ last' = Tick("Connecting", ev, <<>>)
          /\ IF ~IsSome(app.selected_network)
             THEN /\ app' = IF ev = "Esc" THEN quit(app) ELSE app
                  /\ in_flight' = in_flight
                  /\ exit' = Exited("panic", "unwrap on None")
             ELSE LET password == IF Unwrap(app.selected_network).secured
                                  THEN Some(app.password_input) ELSE None
                  IN  /\ app' = IF ev = "Esc" THEN quit(app) ELSE app
                      /\ in_flight' = in_flight \cup
                            { Awaiting("connect_to_network",
                                       <<app.selected_network, password>>, <<>>) }
                      /\ exit' = exit
    /\ UNCHANGED <<rescan_origin, typed, call, ret>>

\* Connecting: Esc at the poll quits; otherwise connect_to_network is called
\* and awaited
ConnectingTick ==
    /\ exit = Running
    /\ LoopTop
    /\ ~app.should_quit
    /\ app.state = "Connecting"
    /\ \E ev \in EventsIn("Connecting") :
          /\ last' = Tick("Connecting", ev, <<>>)
          /\ IF ev = "Esc"
             THEN /\ app' = quit(app)
                  /\ in_flight' = in_flight
                  /\ exit' = exit
             ELSE IF ~IsSome(app.selected_network)
             THEN /\ app' = app
                  /\ in_flight' = in_flight
                  /\ exit' = Exited("panic", "unwrap on None")
             ELSE LET password == IF Unwrap(app.selected_network).secured
                                  THEN Some(app.password_input) ELSE None
                  IN  /\ app' = app
                      /\ in_flight' = in_flight \cup
                            { Awaiting("connect_to_network",
                                       <<app.selected_network, password>>, <<>>) }
                      /\ exit' = exit
    /\ UNCHANGED <<rescan_origin, typed, call, ret>>

\* connect_to_network resolves and its result is matched
ConnectReturn ==
    /\ exit = Running
    /\ \E c \in in_flight, env \in BackendEnvs :
          /\ c.fn = "connect_to_network"
          /\ LET r == connect_to_network(Unwrap(c.args[1]), c.args[2], env)
             IN  /\ app' = MergeConnect(app, r.result)
                 /\ last' = [last EXCEPT !.calls =
                                Append(last.calls,
                                       BackendCall("connect_to_network",
                                                   c.args[1], c.args[2],
                                                   r.cmds, r.result))]
          /\ in_flight' = in_flight \ { c }
    /\ typed' = None
    /\ UNCHANGED <<exit, rescan_origin, call, ret>>

\* Disconnecting: Esc at the poll quits; otherwise disconnect_from_network is
\* called and awaited
DisconnectingTick ==
    /\ exit = Running
    /\ LoopTop
    /\ ~app.should_quit
    /\ app.state = "Disconnecting"
    /\ \E ev \in EventsIn("Disconnecting") :
          /\ last' = Tick("Disconnecting", ev, <<>>)
          /\ IF ev = "Esc"
             THEN /\ app' = quit(app)
                  /\ in_flight' = in_flight
                  /\ exit' = exit
             ELSE IF ~IsSome(app.selected_network)
             THEN /\ app' = app
                  /\ in_flight' = in_flight
                  /\ exit' = Exited("panic", "unwrap on None")
             ELSE /\ app' = app
                  /\ in_flight' = in_flight \cup
                        { Awaiting("disconnect_from_network",
                                   <<app.selected_network, None>>, <<>>) }
                  /\ exit' = exit
    /\ UNCHANGED <<rescan_origin, typed, call, ret>>

\* disconnect_from_network resolves and its result is matched
DisconnectReturn ==
    /\ exit = Running
    /\ \E c \in in_flight, env \in BackendEnvs :
          /\ c.fn = "disconnect_from_network"
          /\ LET r == disconnect_from_network(Unwrap(c.args[1]), env)
             IN  /\ app' = MergeDisconnect(app, r.result)
                 /\ last' = [last EXCEPT !.calls =
                                Append(last.calls,
                                       BackendCall("disconnect_from_network",
                                                   c.args[1], None,
                                                   r.cmds, r.result))]
          /\ in_flight' = in_flight \ { c }
    /\ UNCHANGED <<exit, rescan_origin, typed, call, ret>>

\* the typed credential is capped at MaxPwLen characters
Typable(a, ev) ==
    (a.state = "PasswordInput" /\ IsChar(ev)) => Len(a.password_input) < MaxPwLen

\* a credential prompt: the network it opened for, the text keyed in so far
Prompt(network, text) == [network |-> network, text |-> text]

\* what one event read in `phase` does to the text at the prompt: a character
\* is added at the end, Backspace takes the last one off, Esc closes the prompt
Keyed(prompt, phase, ev) ==
    IF phase # "PasswordInput" \/ ~IsSome(prompt) THEN prompt
    ELSE LET text == Unwrap(prompt).text
         IN  IF ev = "Esc" THEN None
             ELSE IF IsChar(ev)
             THEN Some([Unwrap(prompt) EXCEPT !.text = Append(text, ev)])
             ELSE IF ev = "Backspace" /\ text # <<>>
             THEN Some([Unwrap(prompt) EXCEPT !.text = SubSeq(text, 1, Len(text) - 1)])
             ELSE prompt

\* every other phase: poll, and route a key press through the match on app.state
KeyTick(phase) ==
    /\ exit = Running
    /\ LoopTop
    /\ ~app.should_quit
    /\ app.state = phase
    /\ \E ev \in EventsIn(phase) :
          /\ Typable(app, ev)
          /\ app' = IF IsKey(ev) THEN HandleKey(app, ev) ELSE app
          /\ last' = Tick(phase, ev, <<>>)
          /\ typed' = IF app'.state = "PasswordInput" /\ phase # "PasswordInput"
                      THEN Some(Prompt(Get(app.networks, app.selected_index), <<>>))
                      ELSE Keyed(typed, phase, ev)
    /\ rescan_origin' = IF app'.state = "Scanning" THEN OnCursor(app) ELSE rescan_origin
    /\ UNCHANGED <<exit, in_flight, call, ret>>

NetworkListTick == KeyTick("NetworkList")

HelpTick == KeyTick("Help")

NetworkDetailsTick == KeyTick("NetworkDetails")

PasswordInputTick == KeyTick("PasswordInput")

ConnectionResultTick == KeyTick("ConnectionResult")

Next ==
    \/ Break
    \/ ScanningEvent
    \/ ScanCycle
    \/ ScanReturn
    \/ AdapterReturn
    \/ ConnectingTick
    \/ ConnectReturn
    \/ DisconnectingTick
    \/ DisconnectReturn
    \/ NetworkListTick
    \/ HelpTick
    \/ NetworkDetailsTick
    \/ PasswordInputTick
    \/ ConnectionResultTick

Spec == Init /\ [][Next]_vars

(***************************************************************************)
(* scan_wifi_networks invoked on its own, on every backend answer          *)
(***************************************************************************)
InitScan ==
    /\ app = AppNew
    /\ exit = Running
    /\ last = NoTick
    /\ rescan_origin = None
    /\ in_flight = {}
    /\ typed = None
    /\ call \in { [fn |-> "scan_wifi_networks", env |-> e] : e \in ScanEnvs }
    /\ ret = None

CallScan ==
    /\ call.fn = "scan_wifi_networks"
    /\ ret = None
    /\ ret' = Some(scan_wifi_networks(call.env))
    /\ UNCHANGED <<app, exit, last, rescan_origin, in_flight, typed, call>>

NextScan == CallScan

SpecScan == InitScan /\ [][NextScan]_vars

(***************************************************************************)
(* connect_to_network invoked on its own, on every argument combination    *)
(***************************************************************************)
\* the networks a scan can list
ListedNetworks ==
    { ToNetwork(ap, c) : ap \in { x \in AccessPoints : x.ssid # "" }, c \in ConnectedSsids }

\* Option<&str>: no credential, or any text up to MaxPwLen characters
Passwords == { None } \cup { Some(p) : p \in SeqsUpTo(TypedChars, MaxPwLen) }

InitConnect ==
    /\ app = AppNew
    /\ exit = Running
    /\ last = NoTick
    /\ rescan_origin = None
    /\ in_flight = {}
    /\ typed = None
    /\ call \in { [fn |-> "connect_to_network", network |-> n, password |-> p, env |-> e] :
                    n \in ListedNetworks, p \in Passwords, e \in BackendEnvs }
    /\ ret = None

CallConnect ==
    /\ call.fn = "connect_to_network"
    /\ ret = None
    /\ ret' = Some(connect_to_network(call.network, call.password, call.env))
    /\ UNCHANGED <<app, exit, last, rescan_origin, in_flight, typed, call>>

NextConnect == CallConnect

SpecConnect == InitConnect /\ [][NextConnect]_vars

ScanReturned == call.fn = "scan_wifi_networks" /\ IsSome(ret) /\ Unwrap(ret).ok

Catalog == Unwrap(ret).value

RawAps == call.env.access_points

ExampleAps ==
    << AccessPoint("A", 0, 0, 0, 40, 2412),
       AccessPoint("B", 1, 0, 1, 90, 5200),
       AccessPoint("A", 0, 0, 0, 70, 5180) >>

ExampleCatalog ==
    << [ssid |-> "B", signal_strength |-> 90, secured |-> TRUE,
        frequency |-> 5200, connected |-> FALSE],
       [ssid |-> "A", signal_strength |-> 70, secured |-> FALSE,
        frequency |-> 5180, connected |-> FALSE] >>

\* C1: the catalog a scan returns holds no ssid twice; every observed
\* non-empty ssid has an entry, that entry is one of its observations and no
\* observation of the ssid has a higher frequency; the example list
\* [A 40 2412, B 90 5200, A 70 5180] with nothing associated gives [B(90), A(70)].
C1_UniqueSsidMaxFrequency ==
    ScanReturned =>
        /\ \A i, j \in 1..Len(Catalog) : Catalog[i].ssid = Catalog[j].ssid => i = j
        /\ \A k \in 1..Len(RawAps) :
               RawAps[k].ssid # "" => \E i \in 1..Len(Catalog) : Catalog[i].ssid = RawAps[k].ssid
        /\ \A i \in 1..Len(Catalog) :
               /\ \E k \in 1..Len(RawAps) :
                      /\ RawAps[k].ssid = Catalog[i].ssid
                      /\ RawAps[k].frequency = Catalog[i].frequency
                      /\ RawAps[k].strength = Catalog[i].signal_strength
               /\ \A k \in 1..Len(RawAps) :
                      RawAps[k].ssid = Catalog[i].ssid
                          => RawAps[k].frequency <= Catalog[i].frequency
        /\ (RawAps = ExampleAps /\ call.env.connected_ssid = None)
               => Catalog = ExampleCatalog

\* a scan of the example list has returned
C1_Witness ==
    /\ ScanReturned
    /\ RawAps = ExampleAps
    /\ call.env.connected_ssid = None
    /\ Len(Catalog) = 2

\* C2: in the catalog a scan returns a connected entry can only be at the
\* first position, and from the first unconnected entry on signal_strength
\* never increases.
C2_ConnectedFirstThenSignal ==
    ScanReturned =>
        /\ \A i \in 1..Len(Catalog) : Catalog[i].connected => i = 1
        /\ \A i, j \in 1..Len(Catalog) :
               (i < j /\ ~Catalog[i].connected)
                   => Catalog[i].signal_strength >= Catalog[j].signal_strength

\* a scan returned three networks, the connected one weaker than the next
C2_Witness ==
    /\ ScanReturned
    /\ Len(Catalog) = 3
    /\ Catalog[1].connected
    /\ Catalog[1].signal_strength < Catalog[2].signal_strength
    /\ Catalog[2].signal_strength > Catalog[3].signal_strength

(***************************************************************************)
(* Properties of the loop                                                  *)
(***************************************************************************)
IndexOrZero(vec, ssid) ==
    IF IsSome(Position(vec, ssid)) THEN Unwrap(Position(vec, ssid)) ELSE 0

\* C3: a rescan started (rescan key, or acknowledging a result) while the
\* cursor was on ssid X ends, when the first non-empty catalog arrives, with
\* selected_index and the highlighted index both on X's new index, or both 0
\* if X is gone.
C3_SelectionPreserved ==
    [][ (app.state = "Scanning" /\ app'.state = "NetworkList" /\ IsSome(rescan_origin))
          => /\ app'.selected_index = IndexOrZero(app'.networks, Unwrap(rescan_origin))
             /\ app'.list_state = Some(IndexOrZero(app'.networks, Unwrap(rescan_origin))) ]_vars

\* C4: the rescan key in NetworkList moves to Scanning, clears the catalog
\* and sets selected_network to the network under the cursor.
C4_RescanRemembersCursor ==
    [][ (last'.from = "NetworkList" /\ last'.event = "r")
          => /\ app'.state = "Scanning"
             /\ app'.networks = <<>>
             /\ (IsSome(Get(app.networks, app.selected_index))
                    => app'.selected_network = Get(app.networks, app.selected_index)) ]_vars

\* C5: selected_index is below the catalog's length when the catalog is
\* non-empty and is 0 when it is empty.
C5_CursorInRange ==
    LoopTop =>
        IF app.networks = <<>>
        THEN app.selected_index = 0
        ELSE app.selected_index \in 0..(Len(app.networks) - 1)

ScanFailed ==
    /\ last.from = "Scanning"
    /\ last.calls # <<>>
    /\ ~last.calls[1].result.ok

\* C6: after a scan cycle whose scan failed the loop is still running, the
\* phase is Scanning and the status message carries the error.
C6_ScanFailureKeepsLoop ==
    ScanFailed =>
        /\ exit = Running
        /\ app.state = "Scanning"
        /\ \E i \in 1..Len(app.status_message) :
               app.status_message[i] = last.calls[1].result.error

\* C7: the confirm key in PasswordInput with an empty credential buffer leaves
\* the phase PasswordInput, with a non-empty buffer it moves to Connecting;
\* and no connect call for a secured network carries an empty credential.
C7_EmptyConfirmRejected ==
    [][ /\ (last'.from = "PasswordInput" /\ last'.event = "Enter")
            => app'.state = (IF app.password_input = <<>>
                             THEN "PasswordInput" ELSE "Connecting")
        /\ \A i \in 1..Len(last'.calls) :
               (last'.calls[i].fn = "connect_to_network"
                   /\ Unwrap(last'.calls[i].network).secured)
                   => last'.calls[i].password # Some(<<>>) ]_vars

ConnectReturned == call.fn = "connect_to_network" /\ IsSome(ret)

\* C8: connect_to_network on a secured network with no credential returns the
\* missing-credential error and runs no nmcli command; on every other
\* argument combination it runs at least one and never returns that error.
C8_MissingCredential ==
    ConnectReturned =>
        IF call.network.secured /\ call.password = None
        THEN /\ Unwrap(ret).result = Err("Password required for secured network")
             /\ Unwrap(ret).cmds = <<>>
        ELSE /\ Unwrap(ret).cmds # <<>>
             /\ Unwrap(ret).result # Err("Password required for secured network")

\* connect_to_network returned for a secured network and no credential
C8_Witness ==
    /\ ConnectReturned
    /\ call.network.secured
    /\ call.password = None
    /\ Unwrap(ret).cmds = <<>>

Dispatched ==
    /\ last.calls # <<>>
    /\ last.calls[1].fn \in { "connect_to_network", "disconnect_from_network" }

\* C9: after an iteration that called connect_to_network or
\* disconnect_from_network the loop is still running in phase
\* ConnectionResult, with connection_success true and no connection_error if
\* the call returned Ok, and connection_success false and connection_error
\* the returned error text if it returned Err; in ConnectionResult the flag
\* is set exactly when no error is held.
C9_OutcomeRecorded ==
    /\ Dispatched =>
          /\ exit = Running
          /\ app.state = "ConnectionResult"
          /\ IF last.calls[1].result.ok
             THEN app.connection_success /\ app.connection_error = None
             ELSE /\ ~app.connection_success
                  /\ app.connection_error = Some(last.calls[1].result.error)
    /\ app.state = "ConnectionResult"
          => (app.connection_success <=> app.connection_error = None)

\* a connect call has just failed
C9_Witness ==
    /\ Dispatched
    /\ last.calls[1].fn = "connect_to_network"
    /\ ~last.calls[1].result.ok
    /\ app.state = "ConnectionResult"
    /\ IsSome(app.connection_error)

\* C10: the confirm key in ConnectionResult moves to Scanning with the catalog
\* cleared, connection_success false, no connection_error, an empty
\* credential buffer and no connection_start_time, and leaves
\* selected_network as it was.
C10_AcknowledgeResets ==
    [][ (last'.from = "ConnectionResult" /\ last'.event = "Enter")
          => /\ app'.state = "Scanning"
             /\ app'.networks = <<>>
             /\ ~app'.connection_success
             /\ app'.connection_error = None
             /\ app'.password_input = <<>>
             /\ app'.connection_start_time = None
             /\ app'.selected_network = app.selected_network ]_vars

\* a result for network B has just been acknowledged
C10_Witness ==
    /\ last.from = "ConnectionResult"
    /\ last.event = "Enter"
    /\ app.state = "Scanning"
    /\ app.networks = <<>>
    /\ IsSome(app.selected_network)
    /\ Unwrap(app.selected_network).ssid = "B"

\* the network at selected_index before the step, when Enter or c is read
\* in NetworkList
Selecting ==
    /\ last'.from = "NetworkList"
    /\ last'.event \in { "Enter", "c" }
    /\ IsSome(Get(app.networks, app.selected_index))

\* C11: Enter or c in NetworkList on a network that is connected goes to
\* Disconnecting, secured or not; on one that is secured and not connected to
\* PasswordInput with an empty credential buffer; on one that is open and not
\* connected to Connecting; each time selected_network becomes that network.
C11_SelectDispatch ==
    [][ Selecting =>
          LET network == Unwrap(Get(app.networks, app.selected_index))
          IN  /\ app'.selected_network = Some(network)
              /\ IF network.connected
                 THEN app'.state = "Disconnecting"
                 ELSE IF network.secured
                 THEN app'.state = "PasswordInput" /\ app'.password_input = <<>>
                 ELSE app'.state = "Connecting" ]_vars

\* a network both connected and secured has just been selected
C11_Witness ==
    /\ last.from = "NetworkList"
    /\ last.event \in { "Enter", "c" }
    /\ app.state = "Disconnecting"
    /\ IsSome(app.selected_network)
    /\ Unwrap(app.selected_network).connected
    /\ Unwrap(app.selected_network).secured

\* C12: in every state whose phase is Connecting or Disconnecting
\* connection_start_time is set, whichever key led there.
C12_TimerStarted ==
    app.state \in { "Connecting", "Disconnecting" }
        => IsSome(app.connection_start_time)

\* C13: an iteration begun in PasswordInput moves to Connecting on Enter and
\* to NetworkList with an empty credential buffer on Esc; on every other
\* input the phase, the catalog, both cursor indices and selected_network
\* stay as they were.
C13_PasswordInputTransitions ==
    [][ last'.from = "PasswordInput" =>
          IF last'.event = "Enter"
          THEN app'.state = "Connecting"
          ELSE IF last'.event = "Esc"
          THEN app'.state = "NetworkList" /\ app'.password_input = <<>>
          ELSE /\ app'.state = "PasswordInput"
               /\ app'.networks = app.networks
               /\ app'.selected_index = app.selected_index
               /\ app'.list_state = app.list_state
               /\ app'.selected_network = app.selected_network ]_vars

\* Backspace has just been read in PasswordInput on an empty buffer
C13_Witness ==
    /\ last.from = "PasswordInput"
    /\ last.event = "Backspace"
    /\ app.state = "PasswordInput"
    /\ app.password_input = <<>>
    /\ app.networks # <<>>

Overlays == { "Help", "NetworkDetails" }

\* C14: a step that changes the phase enters Help or NetworkDetails only
\* from NetworkList, and leaves Help or NetworkDetails only for NetworkList.
C14_OverlaysAroundNetworkList ==
    [][ app'.state # app.state =>
          /\ app'.state \in Overlays => app.state = "NetworkList"
          /\ app.state \in Overlays => app'.state = "NetworkList" ]_vars

\* the details overlay has just been closed
C14_Witness ==
    /\ last.from = "NetworkDetails"
    /\ last.event \in { "Esc", "i", "q" }
    /\ app.state = "NetworkList"

\* the loop is about to poll for input
Polling == exit = Running /\ LoopTop /\ ~app.should_quit

\* some input read now sets should_quit
QuitKeyExists == ENABLED (Next /\ app'.should_quit)

\* with should_quit set the loop can only break
OnlyBreak ==
    (exit = Running /\ app.should_quit)
        => (ENABLED Break) /\ ~ENABLED (Next /\ exit'.how # "ok")

\* C15: in each of the eight phases some input read by the loop sets
\* should_quit, and once should_quit is set the loop breaks.
C15_QuitFromEveryPhase ==
    /\ Polling => QuitKeyExists
    /\ OnlyBreak

\* the phases whose handler has a quit arm
QuitPhases ==
    { "Scanning", "NetworkList", "Connecting", "Disconnecting", "ConnectionResult" }

\* C15, amended: in Scanning, NetworkList, Connecting, Disconnecting and
\* ConnectionResult some input read by the loop sets should_quit; in Help,
\* NetworkDetails and PasswordInput none does; once should_quit is set the
\* loop breaks.
C15_QuitFromFivePhases ==
    /\ Polling => (QuitKeyExists <=> app.state \in QuitPhases)
    /\ OnlyBreak

\* Esc was read in Connecting and the loop has ended
C15_Witness ==
    /\ last.from = "Connecting"
    /\ last.event = "Esc"
    /\ app.should_quit
    /\ exit = Exited("ok", "")

\* both cursor indices of a are i
CursorAt(a, i) == a.list_state = Some(i) /\ a.selected_index = i

\* C16: with the highlighted index at i in a catalog of n networks, the
\* next key leaves both cursor indices at 0 if i = n - 1 and at i + 1
\* otherwise, the previous key at n - 1 if i = 0 and at i - 1 otherwise;
\* on an empty catalog next and previous return the App unchanged.
C16_NavigationWraps ==
    [][ LET i == Unwrap(app.list_state)
            n == Len(app.networks)
        IN  /\ (last'.from = "NetworkList" /\ last'.event \in { "j", "Down" })
                  => CursorAt(app', IF i = n - 1 THEN 0 ELSE i + 1)
            /\ (last'.from = "NetworkList" /\ last'.event \in { "k", "Up" })
                  => CursorAt(app', IF i = 0 THEN n - 1 ELSE i - 1)
            /\ app.networks = <<>> => (next(app) = app /\ previous(app) = app) ]_vars

\* the next key has just wrapped from the last of three networks to the first
C16_Witness ==
    /\ last.from = "NetworkList"
    /\ last.event \in { "j", "Down" }
    /\ Len(app.networks) = 3
    /\ CursorAt(app, 0)

\* the calls of fn the latest iteration has made: returned or still awaited
CallsMade(fn) ==
    Cardinality({ i \in 1..Len(last.calls) : last.calls[i].fn = fn })
        + Cardinality({ c \in in_flight : c.fn = fn })

\* C17: an iteration begun in Scanning calls scan_wifi_networks exactly once
\* if its poll timed out, and makes no backend call if the poll delivered
\* an event, key press or not.
C17_ScanOnlyWhenIdle ==
    last.from = "Scanning" =>
        IF last.event = "none"
        THEN CallsMade("scan_wifi_networks") = 1
        ELSE last.calls = <<>> /\ in_flight = {}

\* an iteration in Scanning read a key press and the loop is back at its
\* head with no call made
C17_Witness ==
    /\ last.from = "Scanning"
    /\ IsKey(last.event)
    /\ last.calls = <<>>
    /\ LoopTop
    /\ app.state = "Scanning"
    /\ ~app.should_quit

\* the latest iteration was a scan cycle that ran to its end
ScanCompleted ==
    /\ last.from = "Scanning"
    /\ LoopTop
    /\ last.calls # <<>>
    /\ last.calls[1].result.ok

\* C18: after a completed scan cycle the catalog is exactly the list the
\* scan returned; the phase is NetworkList if that list is non-empty, and
\* otherwise still Scanning with the next scan cycle enabled.
C18_ScanReplacesCatalog ==
    ScanCompleted =>
        /\ app.networks = last.calls[1].result.value
        /\ IF last.calls[1].result.value # <<>>
           THEN app.state = "NetworkList"
           ELSE app.state = "Scanning" /\ ENABLED ScanCycle

\* a scan cycle has just ended on an empty scan, after an earlier one had
\* filled the catalog
C18_Witness ==
    /\ ScanCompleted
    /\ last.calls[1].result.value = <<>>
    /\ app.state = "Scanning"
    /\ app.networks = <<>>
    /\ app.network_count = 0
    /\ IsSome(app.selected_network)

\* the backend entry point an iteration begun in phase dispatches
Operation(phase) ==
    IF phase = "Connecting" THEN "connect_to_network" ELSE "disconnect_from_network"

\* C19: an iteration begun in Connecting or Disconnecting that read Esc at
\* its poll sets should_quit and makes no backend call; one that read
\* anything else, or nothing, makes exactly one call of the phase's
\* operation, while that call is awaited no step is possible but its
\* return, and once it has returned the phase is ConnectionResult.
C19_CancelOnlyAtPoll ==
    last.from \in { "Connecting", "Disconnecting" } =>
        IF last.event = "Esc"
        THEN /\ last.calls = <<>>
             /\ in_flight = {}
             /\ app.should_quit
             /\ app.state = last.from
        ELSE /\ CallsMade(Operation(last.from)) = 1
             /\ Len(last.calls) + Cardinality(in_flight) = 1
             /\ IF LoopTop
                THEN app.state = "ConnectionResult" /\ ~app.should_quit
                ELSE /\ app.state = last.from
                     /\ ~ENABLED (Next /\ in_flight' # {})

\* a key other than Esc was read at the poll in Connecting and the connect
\* call has returned
C19_Witness ==
    /\ last.from = "Connecting"
    /\ last.event = "Enter"
    /\ Len(last.calls) = 1
    /\ last.calls[1].fn = "connect_to_network"
    /\ app.state = "ConnectionResult"

\* C20: never more than one backend call is awaited; while one is awaited
\* the only step is its return, which reads no input, starts no new
\* iteration and adds the call's result to the iteration that issued it; a
\* further call is issued only by that step or later.
C20_OneCallInFlight ==
    [][ /\ Cardinality(in_flight) <= 1
        /\ Cardinality(in_flight') <= 1
        /\ in_flight # {} =>
              /\ in_flight \cap in_flight' = {}
              /\ last'.from = last.from
              /\ last'.event = last.event
              /\ Len(last'.calls) = Len(last.calls) + 1
              /\ \A c \in in_flight : last'.calls[Len(last'.calls)].fn = c.fn ]_vars

\* the scan has returned and get_wifi_adapter_info is the one call awaited
C20_Witness ==
    /\ Cardinality(in_flight) = 1
    /\ \E c \in in_flight : c.fn = "get_wifi_adapter_info"
    /\ Len(last.calls) = 1
    /\ last.calls[1].fn = "scan_wifi_networks"
    /\ app.networks # <<>>

\* the latest iteration was a scan cycle that delivered a non-empty catalog
ScanDelivered == ScanCompleted /\ last.calls[1].result.value # <<>>

\* C21: after a scan cycle that delivered a non-empty catalog
\* selected_network is None, whether or not it was used to place the cursor.
C21_PendingSelectionUsedOnce ==
    ScanDelivered => app.selected_network = None

\* a scan cycle has just placed the cursor on the remembered network, found
\* at the second position, and dropped the remembered network
C21_Witness ==
    /\ ScanDelivered
    /\ CursorAt(app, 1)
    /\ app.selected_network = None
    /\ app.state = "NetworkList"

(***************************************************************************)
(* Further properties of scan_wifi_networks                                *)
(***************************************************************************)
\* the positions of the returned catalog tagged connected
ConnectedEntries == { i \in 1..Len(Catalog) : Catalog[i].connected }

\* C22: an entry of the catalog a scan returns is tagged connected exactly
\* when its ssid is the one get_connected_ssid answered; so at most one
\* entry is, and none when it answered None.
C22_ConnectedIffAssociated ==
    ScanReturned =>
        /\ \A i \in 1..Len(Catalog) :
               Catalog[i].connected <=> (call.env.connected_ssid = Some(Catalog[i].ssid))
        /\ Cardinality(ConnectedEntries) <= 1
        /\ call.env.connected_ssid = None => ConnectedEntries = {}

\* a scan with B associated returned B tagged connected beside two others
C22_Witness ==
    /\ ScanReturned
    /\ call.env.connected_ssid = Some("B")
    /\ Len(Catalog) = 3
    /\ Cardinality(ConnectedEntries) = 1
    /\ \E i \in ConnectedEntries : Catalog[i].ssid = "B"

\* the backend answers that hand the same observations and the same
\* associated ssid to a scan as the one made
SameInputs ==
    { e \in ScanEnvsFor(RawAps) : e.connected_ssid = call.env.connected_ssid }

\* C23: every scan given the same list of observations and the same
\* associated ssid returns the same catalog, entries of equal
\* signal_strength in the same order.
C23_ScanDeterministic ==
    ScanReturned /\ call.env.wifi_device
        => \A e \in SameInputs : scan_wifi_networks(e) = Unwrap(ret)

\* C24: no entry of the catalog a scan returns has an empty ssid.
C24_NoEmptySsid ==
    ScanReturned => \A i \in 1..Len(Catalog) : Catalog[i].ssid # ""

\* a scan whose observations include a hidden access point returned the
\* two named ones
C24_Witness ==
    /\ ScanReturned
    /\ \E k \in 1..Len(RawAps) : RawAps[k].ssid = ""
    /\ Len(RawAps) = 3
    /\ Len(Catalog) = 2

(***************************************************************************)
(* Further properties of the loop                                          *)
(***************************************************************************)
AdapterAwaited(futures) == \E c \in futures : c.fn = "get_wifi_adapter_info"

\* a scan cycle has stored a catalog before: each one sets last_scan_time,
\* nothing clears it, and the first one, begun with adapter_info None, goes
\* on to get_wifi_adapter_info
QueriedBefore == IsSome(app.last_scan_time)

\* C25: get_wifi_adapter_info is called at most once in a run, and
\* adapter_info, once Some, keeps its value.
C25_AdapterQueriedOnce ==
    [][ /\ (AdapterAwaited(in_flight') /\ ~AdapterAwaited(in_flight)) => ~QueriedBefore
        /\ IsSome(app.adapter_info) => app'.adapter_info = app.adapter_info ]_vars

\* C26: in Scanning, NetworkList, Help and NetworkDetails password_input is
\* empty and password_visible is false.
C26_CredentialCleared ==
    app.state \in { "Scanning", "NetworkList", "Help", "NetworkDetails" }
        => app.password_input = <<>> /\ ~app.password_visible

\* the prompt has just been cancelled: the iteration began in PasswordInput,
\* read Esc, and the session is back in NetworkList with a network remembered
C26_Witness ==
    /\ last.from = "PasswordInput"
    /\ last.event = "Esc"
    /\ app.state = "NetworkList"
    /\ app.password_input = <<>>
    /\ ~app.password_visible
    /\ IsSome(app.selected_network)

\* connection_success and connection_error of a are what result gives
OutcomeOf(a, result) ==
    IF result.ok
    THEN a.connection_success /\ a.connection_error = None
    ELSE ~a.connection_success /\ a.connection_error = Some(result.error)

\* C27: an iteration starts (polls, handles input, issues a call) only from
\* a drawn state; a state in ConnectionResult is a drawn one and holds the
\* outcome of the connect or disconnect call that led to it, unchanged
\* while the phase lasts; a state that enters NetworkList from Scanning is
\* a drawn one and holds the catalog the scan of that iteration returned.
C27_DrawSeesMergedResults ==
    [][ /\ last'.calls = <<>> => Drawn
        /\ app'.state = "ConnectionResult" =>
              /\ LoopTop'
              /\ IF app.state = "ConnectionResult"
                 THEN /\ app'.connection_success = app.connection_success
                      /\ app'.connection_error = app.connection_error
                 ELSE /\ last'.calls # <<>>
                      /\ last'.calls[1].fn = Operation(app.state)
                      /\ OutcomeOf(app', last'.calls[1].result)
        /\ (app.state = "Scanning" /\ app'.state = "NetworkList") =>
              /\ LoopTop'
              /\ last'.calls # <<>>
              /\ app'.networks = last'.calls[1].result.value ]_vars

\* a disconnect call that failed has returned into a state the next
\* iteration draws
C27_Witness ==
    /\ Drawn
    /\ app.state = "ConnectionResult"
    /\ last.from = "Disconnecting"
    /\ last.calls # <<>>
    /\ ~last.calls[1].result.ok
    /\ app.connection_error = Some(last.calls[1].result.error)

\* C28: in PasswordInput, Connecting and Disconnecting selected_network is
\* Some, and run_app never ends on the unwrap of a None selected_network.
C28_SelectedNetworkPresent ==
    /\ app.state \in { "PasswordInput", "Connecting", "Disconnecting" }
          => IsSome(app.selected_network)
    /\ exit.how # "panic"

\* the disconnect call is awaited on the unwrapped selected_network
C28_Witness ==
    /\ app.state = "Disconnecting"
    /\ IsSome(app.selected_network)
    /\ \E c \in in_flight :
          /\ c.fn = "disconnect_from_network"
          /\ c.args[1] = app.selected_network

\* C29: selected_index and the highlighted index list_state.selected() are
\* equal in every state.
C29_IndicesAgree ==
    app.list_state = Some(app.selected_index)

\* C30: with control at the head of the loop the catalog is empty exactly
\* when the phase is Scanning, and in Scanning the navigation and selection
\* keys leave the App as it is.
C30_EmptyIffScanning ==
    LoopTop =>
        /\ app.networks = <<>> <=> app.state = "Scanning"
        /\ app.state = "Scanning" =>
              \A key \in { "j", "Down", "k", "Up", "Enter", "c" } :
                  ScanningKey(app, key) = app

\* Enter has just been read in Scanning after a rescan requested with the
\* cursor on the second network: nothing was selected and the phase stays
C30_Witness ==
    /\ LoopTop
    /\ last.from = "Scanning"
    /\ last.event = "Enter"
    /\ app.state = "Scanning"
    /\ app.networks = <<>>
    /\ app.selected_index = 1
    /\ app.selected_network = None

\* the connect_to_network calls dispatched and not yet resolved
ConnectsInFlight == { c \in in_flight : c.fn = "connect_to_network" }

\* C31: the credential handed to connect_to_network for a secured network is
\* exactly the text keyed in at the prompt that was opened for that same
\* network, and an open network is connected with no credential.
C31_CredentialTypedForNetwork ==
    \A c \in ConnectsInFlight :
        IF Unwrap(c.args[1]).secured
        THEN /\ IsSome(typed)
             /\ Unwrap(typed).network = c.args[1]
             /\ c.args[2] = Some(Unwrap(typed).text)
        ELSE c.args[2] = None

\* a two-character credential on its way to the backend for the secured
\* network it was typed for
C31_Witness ==
    \E c \in ConnectsInFlight :
        /\ Unwrap(c.args[1]).secured
        /\ c.args[2] = Some(<<"p", "q">>)
        /\ typed = Some(Prompt(c.args[1], <<"p", "q">>))

\* the disconnect_from_network calls dispatched and not yet resolved
DisconnectsInFlight == { c \in in_flight : c.fn = "disconnect_from_network" }

\* C32: in Disconnecting the selected network is one the catalog marked
\* connected and in Connecting one it did not, so disconnect_from_network is
\* only called for a connected network and connect_to_network only for a
\* network that is not connected.
C32_OperationMatchesConnected ==
    /\ app.state = "Disconnecting" =>
          IsSome(app.selected_network) /\ Unwrap(app.selected_network).connected
    /\ app.state = "Connecting" =>
          IsSome(app.selected_network) /\ ~Unwrap(app.selected_network).connected
    /\ \A c \in DisconnectsInFlight : Unwrap(c.args[1]).connected
    /\ \A c \in ConnectsInFlight : ~Unwrap(c.args[1]).connected

\* the disconnect key pressed on a connected entry next to one that is not,
\* and the call for it under way
C32_Witness ==
    /\ last.from = "Disconnecting"
    /\ DisconnectsInFlight # {}
    /\ \E i \in 1..Len(app.networks) : ~app.networks[i].connected
    /\ app.connection_start_time # None

\* C33: is_disconnect_operation is true in Disconnecting and false in
\* Connecting and PasswordInput; a ConnectionResult entered from Disconnecting
\* has it true, one entered from Connecting has it false, and it does not
\* change while the result is shown.
C33_FlagMatchesOperation ==
    [][ /\ app'.state = "Disconnecting" => app'.is_disconnect_operation
        /\ app'.state \in { "Connecting", "PasswordInput" } =>
              ~app'.is_disconnect_operation
        /\ app'.state = "ConnectionResult" =>
              /\ app.state = "Disconnecting" => app'.is_disconnect_operation
              /\ app.state = "Connecting" => ~app'.is_disconnect_operation
              /\ app.state = "ConnectionResult" =>
                    app'.is_disconnect_operation = app.is_disconnect_operation
              /\ app.state \in { "Disconnecting", "Connecting", "ConnectionResult" } ]_vars

\* the result of a disconnection chosen with the select key, still shown
\* after an event that does not dismiss it
C33_Witness ==
    /\ app.state = "ConnectionResult"
    /\ app.is_disconnect_operation
    /\ app.connection_start_time = None
    /\ last.from = "ConnectionResult"

\* C34: from a state with should_quit set the only step is the break: the
\* state is one the loop has rendered, should_quit stays set, no backend
\* call is dispatched or resolved, and run_app returns Ok.
C34_QuitIsFinal ==
    [][ app.should_quit =>
            /\ Drawn
            /\ app' = app
            /\ in_flight' = {}
            /\ last' = last
            /\ exit' = Exited("ok", "") ]_vars

\* q was read in NetworkList after a scan, and the loop has ended
C34_Witness ==
    /\ last.from = "NetworkList"
    /\ last.event = "q"
    /\ app.should_quit
    /\ app.networks # <<>>
    /\ exit = Exited("ok", "")

\* key, read in NetworkList on session a, leaves the phase and the selected
\* network as they are
Ignored(a, key) ==
    LET b == NetworkListKey(a, key)
    IN  b.state = "NetworkList" /\ b.selected_network = a.selected_network

\* C35: in NetworkList the disconnect key on an entry that is not connected
\* or on no entry, the select keys on no entry, and the details key on an
\* empty catalog leave the phase NetworkList and selected_network unchanged.
\* No NetworkList state has an empty catalog, so the details key (with the
\* other two) is also applied to each such session with its catalog emptied.
C35_InapplicableIgnored ==
    (LoopTop /\ app.state = "NetworkList") =>
        LET network == Get(app.networks, app.selected_index)
            emptied == [app EXCEPT !.networks = <<>>]
        IN  /\ (~IsSome(network) \/ ~Unwrap(network).connected) => Ignored(app, "d")
            /\ ~IsSome(network) => Ignored(app, "Enter") /\ Ignored(app, "c")
            /\ app.networks = <<>> => Ignored(app, "i")
            /\ \A key \in { "i", "d", "Enter", "c" } : Ignored(emptied, key)

\* the disconnect key was read with selected_index past the end of the
\* catalog, and the session is still in NetworkList
C35_Witness ==
    /\ LoopTop
    /\ last.from = "NetworkList"
    /\ last.event = "d"
    /\ app.state = "NetworkList"
    /\ Get(app.networks, app.selected_index) = None

(***************************************************************************)
(* run_app under a scheduler that keeps the loop going: poll returns       *)
(* within its 100 ms and an awaited backend call resolves, so an iteration *)
(* that can be taken is taken                                              *)
(***************************************************************************)
SpecLive == Init /\ [][Next]_vars /\ WF_vars(Next)

\* this step resolves the scan_wifi_networks call of the iteration
ScanAnswered ==
    /\ Len(last'.calls) = Len(last.calls) + 1
    /\ last'.calls[Len(last'.calls)].fn = "scan_wifi_networks"

\* what scan_wifi_networks returned in this step
ScanAnswer == last'.calls[Len(last'.calls)].result

\* no scan returns an error: run_app never returns one through its `?`
NoBackendError == [](exit.how # "err")

\* from some point on every scan reports at least one network
EventuallyNetworks ==
    <>[][ScanAnswered => (ScanAnswer.ok /\ ScanAnswer.value # <<>>)]_vars

\* from some point on every poll times out
InputStops == <>[][last'.event = "none"]_vars

\* C36: if no backend call fails, scans report networks from some point on
\* and input stops arriving, a session in Scanning reaches NetworkList.
C36_ScanningReachesNetworkList ==
    (NoBackendError /\ EventuallyNetworks /\ InputStops)
        => ((app.state = "Scanning") ~> (app.state = "NetworkList"))

\* C36, amended: under the same assumptions a session in Scanning reaches
\* NetworkList unless Esc was read there, which ends the session in Scanning.
C36_ScanningReachesNetworkListOrQuits ==
    (NoBackendError /\ EventuallyNetworks /\ InputStops)
        => ((app.state = "Scanning") ~> (app.state = "NetworkList" \/ app.should_quit))

\* a rescan, made with the adapter already known, has ended in NetworkList
\* on a poll that timed out
C36_Witness ==
    /\ LoopTop
    /\ last.from = "Scanning"
    /\ last.event = "none"
    /\ Len(last.calls) = 1
    /\ last.calls[1].result.ok
    /\ Len(last.calls[1].result.value) = 2
    /\ app.state = "NetworkList"

\* C37: while the phase is Scanning a remembered selected network is kept,
\* through scan cycles that return nothing included, and the step that
\* leaves Scanning goes to NetworkList with both cursor indices on the
\* entry of that network's ssid in the new catalog, or on 0 if it has none.
C37_PendingSelectionSurvives ==
    [][ (app.state = "Scanning" /\ IsSome(app.selected_network)) =>
            IF app'.state = "Scanning"
            THEN app'.selected_network = app.selected_network
            ELSE /\ app'.state = "NetworkList"
                 /\ app'.networks # <<>>
                 /\ CursorAt(app', IndexOrZero(app'.networks,
                                               Unwrap(app.selected_network).ssid)) ]_vars

\* a scan cycle has returned nothing and the network remembered for the
\* rescan is still there
C37_Witness ==
    /\ LoopTop
    /\ app.state = "Scanning"
    /\ IsSome(app.selected_network)
    /\ last.from = "Scanning"
    /\ Len(last.calls) > 0
    /\ last.calls[1].result = Ok(<<>>)

RECURSIVE NextTimes(_, _)
\* next applied n times to session a
NextTimes(a, n) == IF n = 0 THEN a ELSE NextTimes(next(a), n - 1)

\* C38: on a non-empty catalog with the highlighted index i in range, next
\* then previous, previous then next, and next applied once per catalog
\* entry each end with the highlighted index, and selected_index with it,
\* back on i.
C38_NextPreviousInverse ==
    (/\ app.networks # <<>>
     /\ IsSome(app.list_state)
     /\ Unwrap(app.list_state) < Len(app.networks)) =>
        LET i == Unwrap(app.list_state)
        IN  /\ CursorAt(previous(next(app)), i)
            /\ CursorAt(next(previous(app)), i)
            /\ CursorAt(NextTimes(app, Len(app.networks)), i)

\* the previous key has wrapped the highlight from the first of three
\* networks to the last, where next wraps back
C38_Witness ==
    /\ last.from = "NetworkList"
    /\ last.event \in { "k", "Up" }
    /\ Len(app.networks) = 3
    /\ CursorAt(app, 2)
    /\ CursorAt(next(app), 0)
====
